---- MODULE Spec2Model ----
(***************************************************************************)
(* Model of the SmartThings integration core:                              *)
(*   - smartapp_sync_subscriptions (smartapp.py): the subscription         *)
(*     reconciler, run by concurrent passes against one remote;            *)
(*   - smartapp_webhook (smartapp.py): the inbound webhook handler;        *)
(*   - SmartThingsFlowHandler (config_flow.py): the installation handshake.*)
(***************************************************************************)
EXTENDS Integers, Sequences, FiniteSets, TLC

VARIABLES
    \* ---- subscription reconciler ----
    devices,        \* the device snapshot handed to every pass: a sequence of capability lists
    remote,         \* the remote's subscriptions of the installed app: set of [id, capability]
    remote0,        \* the remote's subscriptions before the first pass (history)
    pc,             \* per pass: "idle", "list", "gather", "done", "raised"
    capabilities,   \* per pass: the local set `capabilities`
    subscriptions,  \* per pass: the list api.subscriptions returned
    tasks,          \* per pass: the list `tasks`, one record per coroutine
    warned,         \* per pass: the quota warning was logged
    faults,         \* number of remote calls that failed
    listCalls,      \* per pass: number of api.subscriptions calls issued (history)
    clean,          \* per pass: no other pass changed the remote since this pass listed (history)
    converged,      \* a pass finished with every call succeeding, remote untouched since (history)
    afterConv,      \* per pass: the pass listed while `converged` held (history)
    \* ---- webhook handler ----
    wh_pc,          \* "idle", "json" (awaiting request.json), "handle" (awaiting the manager),
                    \* "responded", "raised"
    request,        \* the inbound request: [body, headers]
    data,           \* the deserialized body
    managerArgs,    \* what manager.handle_request was called with: [data, headers]
    managed,        \* how manager.handle_request ended: [state, result], state being
                    \* "none", "returned" or "raised" (history)
    response,       \* the response returned: [status, body]
    handled,        \* number of requests received
    \* ---- installation handshake (one record per flow instance) ----
    cur_step,       \* the step the flow manager calls next: "user", "pat", "select_location",
                    \* "authorize"; "done" and "aborted" once the flow is over
    session,        \* the handler's instance attributes
    result,         \* the result the last call returned
    trail,          \* the steps the last call ran, each with its input (history)
    calls,          \* the remote API calls the last call made (history)
    preSession,     \* the instance attributes before the last call (history)
    locations,      \* what api.locations() returned to the last call (history)
    awaiting,       \* async_step_user is suspended in setup_smartapp_endpoint: its input
    endpointCalls,  \* number of setup_smartapp_endpoint calls
    registered,     \* app ids registered with the dispatcher by setup_smartapp
    validated,      \* what validate_webhook_requirements told the last call of
                    \* async_step_user: "valid", "invalid"; "none" before (history)
    handshake,      \* what the flow has been through so far: the milestones in the
                    \* order they last happened, the last credential submitted and
                    \* how it fared, the app it led to, the locations last offered
                    \* and the one chosen (history)
    entries,        \* the config entries created: set of [flow, data]
    \* ---- the reconciler's diff, computed on its own ----
    args,           \* the inputs: two device snapshots and one listing
    ret             \* what the diff yields for each snapshot against the listing

syncVars == <<devices, remote, remote0, pc, capabilities, subscriptions,
              tasks, warned, faults, listCalls, clean, converged, afterConv>>

webhookVars == <<wh_pc, request, data, managerArgs, managed, response, handled>>

flowVars == <<cur_step, session, result, trail, calls, preSession, locations,
              awaiting, endpointCalls, registered, validated, handshake, entries>>

diffVars == <<args, ret>>

----------------------------------------------------------------------------
\* Bounds of the model
MaxRequests == 3     \* webhook requests received in one behaviour
MaxDevices  == 2     \* devices in a snapshot
MaxInitSubs == 2     \* subscriptions on the remote before the first pass
MaxFaults   == 2     \* remote calls that fail in one behaviour
MaxListed   == 3     \* subscriptions in a listing handed to the diff

\* The calls of smartapp_sync_subscriptions: two, one after the other or
\* overlapping. They are interchangeable, so "p2" is only ever started once
\* "p1" has been.
Passes == {"p1", "p2"}

PassNo(p) == IF p = "p1" THEN 1 ELSE 2

\* const.py
IGNORED_CAPABILITIES == {"execute", "healthCheck", "ocf"}
SUBSCRIPTION_WARNING_LIMIT == 40

\* further capabilities the platform knows, enough of them to pass the limit
ManyCapabilities == {"cap" \o ToString(i) : i \in 1..SUBSCRIPTION_WARNING_LIMIT}

\* pysmartthings.CAPABILITIES: the capabilities the platform knows (allowlist)
CAPABILITIES ==
    {"switch", "switchLevel", "thermostatMode", "execute", "healthCheck", "ocf"}
        \cup ManyCapabilities

\* a device reporting n of the further capabilities
LargeDevice(n) == [i \in 1..n |-> "cap" \o ToString(i)]

\* Devices that bring a snapshot to just below, to and past the limit
LargeKinds ==
    { LargeDevice(SUBSCRIPTION_WARNING_LIMIT - 1),
      LargeDevice(SUBSCRIPTION_WARNING_LIMIT),
      <<"switch", "switchLevel">> }

\* Capability lists devices report; "vendorCap" is unknown to the platform
DeviceKinds ==
    { <<"switch", "switchLevel">>,
      <<"switch", "thermostatMode">>,
      <<"healthCheck", "execute", "ocf", "vendorCap">> }

\* Capabilities a subscription found on the remote may carry
RemoteCaps == {"switch", "healthCheck"}

Range(s) == {s[i] : i \in DOMAIN s}

\* Subscription ids are opaque and unique. The subscriptions found before the
\* first pass are numbered 1..MaxInitSubs; one created by a pass is numbered
\* after the pass and the capability that created it.
CapOrder == <<"switch", "switchLevel", "thermostatMode", "execute", "healthCheck", "ocf", "vendorCap">>
CapIndex(c) == CHOOSE i \in DOMAIN CapOrder : CapOrder[i] = c
NewId(p, c) == MaxInitSubs + (PassNo(p) - 1) * Len(CapOrder) + CapIndex(c)

SeqsUpTo(S, n) == UNION {[1..k -> S] : k \in 0..n}

\* the subscriptions of S in ascending id order
RECURSIVE SortById(_)
SortById(S) ==
    IF S = {} THEN <<>>
    ELSE LET m == CHOOSE x \in S : \A y \in S : x.id <= y.id
         IN <<m>> \o SortById(S \ {m})

\* The orders in which the remote may return the set S. The order reaches the
\* pass only through which subscription of each capability is listed first, so
\* one list stands for every list with the same first subscriptions: the
\* chosen first ones, then the others.
Orderings(S) ==
    LET caps == {x.capability : x \in S}
        Firsts == {F \in SUBSET S :
                      /\ \A c \in caps : \E x \in F : x.capability = c
                      /\ \A x, y \in F : x.capability = y.capability => x = y}
    IN {SortById(F) \o SortById(S \ F) : F \in Firsts}

----------------------------------------------------------------------------
\* smartapp_sync_subscriptions, lines 108-114

\* the first device alone decides the capabilities
DeviceUnion_FirstOnly(devs, i) ==
    IF i > Len(devs) THEN {} ELSE Range(devs[i])

RECURSIVE DeviceUnion(_, _)
DeviceUnion(devs, i) ==
    IF i > Len(devs) THEN {}
    ELSE Range(devs[i]) \cup DeviceUnion(devs, i + 1)

\* the denylist is not applied
DesiredCapabilities_NoDenylist(devs) == DeviceUnion(devs, 1) \cap CAPABILITIES

DesiredCapabilities(devs) ==
    (DeviceUnion(devs, 1) \cap CAPABILITIES) \ IGNORED_CAPABILITIES

\* lines 115-121
QuotaWarning(caps) == Cardinality(caps) > SUBSCRIPTION_WARNING_LIMIT

\* lines 132-136: walk the listed subscriptions; a subscription whose capability
\* is still wanted consumes it, every other one gets a delete task
\* a matched capability is not removed from the set
RECURSIVE Partition_NoRemove(_, _, _, _)
Partition_NoRemove(subs, i, caps, dels) ==
    IF i > Len(subs) THEN [caps |-> caps, dels |-> dels]
    ELSE IF subs[i].capability \in caps
         THEN Partition_NoRemove(subs, i + 1, caps, dels)
         ELSE Partition_NoRemove(subs, i + 1, caps, Append(dels, subs[i]))

\* a partition that replaces every listed subscription: nothing is matched
\* against the desired set
Partition_ReplaceAll(subs, i, caps, dels) == [caps |-> caps, dels |-> dels \o subs]

RECURSIVE Partition(_, _, _, _)
Partition(subs, i, caps, dels) ==
    IF i > Len(subs) THEN [caps |-> caps, dels |-> dels]
    ELSE IF subs[i].capability \in caps
         THEN Partition(subs, i + 1, caps \ {subs[i].capability}, dels)
         ELSE Partition(subs, i + 1, caps, Append(dels, subs[i]))

DeleteTask(sub) ==
    [kind |-> "delete", capability |-> sub.capability, id |-> sub.id, status |-> "pending"]

CreateTask(c) ==
    [kind |-> "create", capability |-> c, id |-> 0, status |-> "pending"]

\* line 139: one create task per remaining capability (set order is arbitrary;
\* the tasks run concurrently, so any fixed order will do)
RECURSIVE CreateTasks(_)
CreateTasks(caps) ==
    IF caps = {} THEN <<>>
    ELSE LET c == CHOOSE x \in caps : TRUE
         IN <<CreateTask(c)>> \o CreateTasks(caps \ {c})

\* creates are built from the desired set, not from what the partition left
BuildTasks_CreateAll(subs, caps) ==
    LET part == Partition(subs, 1, caps, <<>>)
    IN [caps  |-> part.caps,
        tasks |-> [i \in 1..Len(part.dels) |-> DeleteTask(part.dels[i])]
                  \o CreateTasks(caps)]

\* no delete task is built
BuildTasks_NoDeletes(subs, caps) ==
    LET part == Partition(subs, 1, caps, <<>>)
    IN [caps  |-> part.caps,
        tasks |-> CreateTasks(part.caps)]

BuildTasks(subs, caps) ==
    LET part == Partition(subs, 1, caps, <<>>)
    IN [caps  |-> part.caps,
        tasks |-> [i \in 1..Len(part.dels) |-> DeleteTask(part.dels[i])]
                  \o CreateTasks(part.caps)]

\* past the limit nothing is done
Reconcile_StopsWhenWarned(devs, subs) ==
    LET caps  == DesiredCapabilities(devs)
        built == BuildTasks(subs, caps)
    IN [desired |-> caps, warned |-> QuotaWarning(caps),
        tasks |-> IF QuotaWarning(caps) THEN <<>> ELSE built.tasks]

\* lines 108-139 for one device snapshot and one listing: the desired
\* capabilities, the quota warning and the tasks
Reconcile(devs, subs) ==
    LET caps  == DesiredCapabilities(devs)
        built == BuildTasks(subs, caps)
    IN [desired |-> caps, warned |-> QuotaWarning(caps), tasks |-> built.tasks]

\* Capabilities a listed subscription may carry
ListedCaps == {"switch", "switchLevel", "healthCheck"}

\* The listings handed to the diff: the subscriptions in the order listed,
\* numbered in that order
Listings ==
    UNION {{[i \in 1..k |-> [id |-> i, capability |-> f[i]]] : f \in [1..k -> ListedCaps]}
              : k \in 0..MaxListed}

NoArgs == [called |-> FALSE, devices1 |-> <<>>, devices2 |-> <<>>, subscriptions |-> <<>>]

NoRet == [first |-> Reconcile(<<>>, <<>>), second |-> Reconcile(<<>>, <<>>)]

\* the diff is computed for two device snapshots against the same listing
reconcile ==
    /\ UNCHANGED <<syncVars, webhookVars, flowVars>>
    /\ ~args.called
    /\ \E d1, d2 \in SeqsUpTo(DeviceKinds, MaxDevices), subs \in Listings :
          /\ args' = [called |-> TRUE, devices1 |-> d1, devices2 |-> d2, subscriptions |-> subs]
          /\ ret' = [first |-> Reconcile(d1, subs), second |-> Reconcile(d2, subs)]

Reverse(seq) == [i \in DOMAIN seq |-> seq[Len(seq) + 1 - i]]

\* the diff is computed for a snapshot of large devices, and for the same
\* devices in reverse order
reconcile_large ==
    /\ UNCHANGED <<syncVars, webhookVars, flowVars>>
    /\ ~args.called
    /\ \E d1 \in SeqsUpTo(LargeKinds, MaxDevices), subs \in Listings :
          /\ args' = [called |-> TRUE, devices1 |-> d1, devices2 |-> Reverse(d1),
                      subscriptions |-> subs]
          /\ ret' = [first |-> Reconcile(d1, subs), second |-> Reconcile(Reverse(d1), subs)]

NextReconcile ==
    \/ reconcile
    \/ reconcile_large

----------------------------------------------------------------------------
\* a change of the remote made by pass p: every other pass's snapshot is stale
Disturb(p) == [q \in Passes |-> IF q = p THEN clean[q] ELSE FALSE]

\* a pass that prunes each device's capability list in place instead of
\* building its own set
sync_begin_PrunesDevices(p) ==
    /\ UNCHANGED <<webhookVars, flowVars, diffVars>>
    /\ pc[p] = "idle"
    /\ p = "p2" => pc["p1"] # "idle"
    /\ devices' = [k \in DOMAIN devices |->
                      SelectSeq(devices[k], LAMBDA c : c \in DesiredCapabilities(devices))]
    /\ capabilities' = [capabilities EXCEPT ![p] = DesiredCapabilities(devices)]
    /\ warned' = [warned EXCEPT ![p] = QuotaWarning(DesiredCapabilities(devices))]
    /\ subscriptions' = [subscriptions EXCEPT ![p] = <<>>]
    /\ tasks' = [tasks EXCEPT ![p] = <<>>]
    /\ pc' = [pc EXCEPT ![p] = "list"]
    /\ clean' = [clean EXCEPT ![p] = FALSE]
    /\ afterConv' = [afterConv EXCEPT ![p] = FALSE]
    /\ listCalls' = [listCalls EXCEPT ![p] = 0]
    /\ UNCHANGED <<remote, remote0, faults, converged>>

\* lines 69-128: the pass is called with the device snapshot, computes the
\* desired capabilities and suspends in api.subscriptions
sync_begin(p) ==
    /\ UNCHANGED <<webhookVars, flowVars, diffVars>>
    /\ pc[p] = "idle"
    /\ p = "p2" => pc["p1"] # "idle"
    /\ capabilities' = [capabilities EXCEPT ![p] = DesiredCapabilities(devices)]
    /\ warned' = [warned EXCEPT ![p] = QuotaWarning(DesiredCapabilities(devices))]
    /\ subscriptions' = [subscriptions EXCEPT ![p] = <<>>]
    /\ tasks' = [tasks EXCEPT ![p] = <<>>]
    /\ pc' = [pc EXCEPT ![p] = "list"]
    /\ clean' = [clean EXCEPT ![p] = FALSE]
    /\ afterConv' = [afterConv EXCEPT ![p] = FALSE]
    /\ listCalls' = [listCalls EXCEPT ![p] = 0]
    /\ UNCHANGED <<devices, remote, remote0, faults, converged>>

\* lines 131-144, api.subscriptions returns: partition, build the tasks, and
\* either start gathering or finish at once when there is nothing to do
sync_list(p) ==
    /\ UNCHANGED <<webhookVars, flowVars, diffVars>>
    /\ pc[p] = "list"
    /\ \E subs \in Orderings(remote) :
          LET built == BuildTasks(subs, capabilities[p])
          IN /\ subscriptions' = [subscriptions EXCEPT ![p] = subs]
             /\ capabilities' = [capabilities EXCEPT ![p] = built.caps]
             /\ tasks' = [tasks EXCEPT ![p] = built.tasks]
             /\ pc' = [pc EXCEPT ![p] = IF built.tasks = <<>> THEN "done" ELSE "gather"]
             /\ converged' = (converged \/ built.tasks = <<>>)
    /\ clean' = [clean EXCEPT ![p] = TRUE]
    /\ afterConv' = [afterConv EXCEPT ![p] = converged]
    /\ listCalls' = [listCalls EXCEPT ![p] = @ + 1]
    /\ UNCHANGED <<devices, remote, remote0, warned, faults>>

\* a pass that treats a failed listing as an empty one and goes on
sync_list_fails_Proceeds(p) ==
    /\ UNCHANGED <<webhookVars, flowVars, diffVars>>
    /\ pc[p] = "list"
    /\ faults < MaxFaults
    /\ faults' = faults + 1
    /\ tasks' = [tasks EXCEPT ![p] = CreateTasks(capabilities[p])]
    /\ pc' = [pc EXCEPT ![p] = IF capabilities[p] = {} THEN "done" ELSE "gather"]
    /\ listCalls' = [listCalls EXCEPT ![p] = @ + 1]
    /\ UNCHANGED <<devices, remote, remote0, capabilities, subscriptions,
                   warned, clean, converged, afterConv>>

\* line 131, api.subscriptions raises: nothing catches it, the pass raises
sync_list_fails(p) ==
    /\ UNCHANGED <<webhookVars, flowVars, diffVars>>
    /\ pc[p] = "list"
    /\ faults < MaxFaults
    /\ faults' = faults + 1
    /\ pc' = [pc EXCEPT ![p] = "raised"]
    /\ listCalls' = [listCalls EXCEPT ![p] = @ + 1]
    /\ UNCHANGED <<devices, remote, remote0, capabilities, subscriptions,
                   tasks, warned, clean, converged, afterConv>>

\* lines 72-89: one create coroutine makes its remote call
create_subscription(p, i) ==
    /\ UNCHANGED <<webhookVars, flowVars, diffVars>>
    /\ pc[p] = "gather"
    /\ i \in DOMAIN tasks[p]
    /\ tasks[p][i].kind = "create"
    /\ tasks[p][i].status = "pending"
    /\ \/ /\ remote' = remote \cup {[id |-> NewId(p, tasks[p][i].capability),
                                      capability |-> tasks[p][i].capability]}
          /\ tasks' = [tasks EXCEPT ![p][i].status = "ok"]
          /\ clean' = Disturb(p)
          /\ converged' = FALSE
          /\ UNCHANGED faults
       \/ /\ faults < MaxFaults
          /\ faults' = faults + 1
          /\ tasks' = [tasks EXCEPT ![p][i].status = "failed"]
          /\ UNCHANGED <<remote, clean, converged>>
    /\ UNCHANGED <<devices, remote0, pc, capabilities, subscriptions, warned,
                   listCalls, afterConv>>

\* lines 91-105: one delete coroutine makes its remote call; the remote refuses
\* to delete a subscription it no longer holds
delete_subscription(p, i) ==
    /\ UNCHANGED <<webhookVars, flowVars, diffVars>>
    /\ pc[p] = "gather"
    /\ i \in DOMAIN tasks[p]
    /\ tasks[p][i].kind = "delete"
    /\ tasks[p][i].status = "pending"
    /\ \/ /\ \E s \in remote : s.id = tasks[p][i].id
          /\ remote' = {s \in remote : s.id # tasks[p][i].id}
          /\ tasks' = [tasks EXCEPT ![p][i].status = "ok"]
          /\ clean' = Disturb(p)
          /\ converged' = FALSE
          /\ UNCHANGED faults
       \/ /\ \A s \in remote : s.id # tasks[p][i].id
          /\ tasks' = [tasks EXCEPT ![p][i].status = "failed"]
          /\ UNCHANGED <<remote, clean, converged, faults>>
       \/ /\ faults < MaxFaults
          /\ faults' = faults + 1
          /\ tasks' = [tasks EXCEPT ![p][i].status = "failed"]
          /\ UNCHANGED <<remote, clean, converged>>
    /\ UNCHANGED <<devices, remote0, pc, capabilities, subscriptions,
                   warned, listCalls, afterConv>>

AllOk(p) == \A i \in DOMAIN tasks[p] : tasks[p][i].status = "ok"

\* gather returns as soon as one coroutine has failed, the others abandoned
sync_gather_done_FirstFailure(p) ==
    /\ UNCHANGED <<webhookVars, flowVars, diffVars>>
    /\ pc[p] = "gather"
    /\ \/ \A i \in DOMAIN tasks[p] : tasks[p][i].status # "pending"
       \/ \E i \in DOMAIN tasks[p] : tasks[p][i].status = "failed"
    /\ pc' = [pc EXCEPT ![p] = "done"]
    /\ converged' = (AllOk(p) /\ clean[p])
    /\ UNCHANGED <<devices, remote, remote0, capabilities, subscriptions,
                   tasks, warned, faults, listCalls, clean, afterConv>>

\* line 142: asyncio.gather returns once every coroutine has finished
sync_gather_done(p) ==
    /\ UNCHANGED <<webhookVars, flowVars, diffVars>>
    /\ pc[p] = "gather"
    /\ \A i \in DOMAIN tasks[p] : tasks[p][i].status # "pending"
    /\ pc' = [pc EXCEPT ![p] = "done"]
    /\ converged' = (AllOk(p) /\ clean[p])
    /\ UNCHANGED <<devices, remote, remote0, capabilities, subscriptions,
                   tasks, warned, faults, listCalls, clean, afterConv>>

\* positions in a pass's task list: at most one delete per listed subscription
\* and one create per desired capability
TaskSlots ==
    1..(MaxInitSubs + 3 * Cardinality(UNION {DesiredCapabilities(<<d>>) : d \in DeviceKinds}))

NextSync ==
    \E p \in Passes :
        \/ sync_begin(p)
        \/ sync_list(p)
        \/ sync_list_fails(p)
        \/ \E i \in TaskSlots :
              \/ create_subscription(p, i)
              \/ delete_subscription(p, i)
        \/ sync_gather_done(p)

\* no pass is in flight
Quiet == \A q \in Passes : pc[q] \in {"idle", "done", "raised"}

\* lines 69-128, the pass called once every earlier call has returned
sync_begin_alone(p) == Quiet /\ sync_begin(p)

\* the passes run one at a time
NextSeq ==
    \E p \in Passes :
        \/ sync_begin_alone(p)
        \/ sync_list(p)
        \/ sync_list_fails(p)
        \/ \E i \in TaskSlots :
              \/ create_subscription(p, i)
              \/ delete_subscription(p, i)
        \/ sync_gather_done(p)

----------------------------------------------------------------------------
\* smartapp_webhook

NoValue == "None"

\* request bodies as they arrive on the wire
Bodies == {"{\"lifecycle\": \"PING\"}", "{\"lifecycle\": \"EVENT\"}", "{\"lifecycle\": \"INSTALL\"}",
           "{\"lifecycle\": \"UPDATE\"}", "{\"lifecycle\": ", ""}

HeaderSets == {"signed", "unsigned"}

\* request.json(): the parsed body, or JSONDecodeError for a body that is not JSON
RequestJson(body) ==
    CASE body = "{\"lifecycle\": \"PING\"}"  -> [ok |-> TRUE, value |-> [lifecycle |-> "PING"]]
      [] body = "{\"lifecycle\": \"EVENT\"}" -> [ok |-> TRUE, value |-> [lifecycle |-> "EVENT"]]
      [] body = "{\"lifecycle\": \"INSTALL\"}" -> [ok |-> TRUE, value |-> [lifecycle |-> "INSTALL"]]
      [] body = "{\"lifecycle\": \"UPDATE\"}" -> [ok |-> TRUE, value |-> [lifecycle |-> "UPDATE"]]
      [] OTHER -> [ok |-> FALSE, value |-> "JSONDecodeError"]

\* what the lifecycle manager answers to a request it accepts
ManagerResult(d) == [reply |-> d.lifecycle]

NotManaged == [state |-> "none", result |-> [reply |-> NoValue]]

\* web.json_response, line 156: the result serialized as the body
JsonDumps(r) ==
    CASE r.reply = "PING"    -> "{\"reply\": \"PING\"}"
      [] r.reply = "EVENT"   -> "{\"reply\": \"EVENT\"}"
      [] r.reply = "INSTALL" -> "{\"reply\": \"INSTALL\"}"
      [] r.reply = "UPDATE"  -> "{\"reply\": \"UPDATE\"}"

\* lines 147-150: a request arrives, the manager is looked up and the handler
\* suspends in request.json()
webhook_receive ==
    /\ UNCHANGED <<syncVars, flowVars, diffVars>>
    /\ wh_pc \in {"idle", "responded", "raised"}
    /\ handled < MaxRequests
    /\ handled' = handled + 1
    /\ \E b \in Bodies, h \in HeaderSets : request' = [body |-> b, headers |-> h]
    /\ data' = NoValue
    /\ managerArgs' = NoValue
    /\ managed' = NotManaged
    /\ response' = NoValue
    /\ wh_pc' = "json"

\* line 150 outside any try: the body is deserialized, or the decode error
\* leaves the handler; lines 154-155: the manager is called
webhook_json ==
    /\ UNCHANGED <<syncVars, flowVars, diffVars>>
    /\ wh_pc = "json"
    /\ LET parsed == RequestJson(request.body)
       IN IF parsed.ok
          THEN /\ data' = parsed.value
               /\ managerArgs' = [data |-> parsed.value, headers |-> request.headers]
               /\ wh_pc' = "handle"
          ELSE /\ wh_pc' = "raised"
               /\ UNCHANGED <<data, managerArgs>>
    /\ UNCHANGED <<request, managed, response, handled>>

\* lines 155-159: the manager returns and its result is the JSON response, or
\* it raises and the handler answers 500
webhook_handle_EmptyBody ==
    /\ UNCHANGED <<syncVars, flowVars, diffVars>>
    /\ wh_pc = "handle"
    /\ \/ /\ managed' = [state |-> "returned", result |-> ManagerResult(managerArgs.data)]
          /\ response' = [status |-> 200, body |-> NoValue]
       \/ /\ managed' = [NotManaged EXCEPT !.state = "raised"]
          /\ response' = [status |-> 500, body |-> NoValue]
    /\ wh_pc' = "responded"
    /\ UNCHANGED <<request, data, managerArgs, handled>>

webhook_handle ==
    /\ UNCHANGED <<syncVars, flowVars, diffVars>>
    /\ wh_pc = "handle"
    /\ \/ /\ managed' = [state |-> "returned", result |-> ManagerResult(managerArgs.data)]
          /\ response' = [status |-> 200, body |-> JsonDumps(ManagerResult(managerArgs.data))]
       \/ /\ managed' = [NotManaged EXCEPT !.state = "raised"]
          /\ response' = [status |-> 500, body |-> NoValue]
    /\ wh_pc' = "responded"
    /\ UNCHANGED <<request, data, managerArgs, handled>>

NextWebhook ==
    \/ webhook_receive
    \/ webhook_json
    \/ webhook_handle

----------------------------------------------------------------------------
\* SmartThingsFlowHandler (config_flow.py)

\* The flow instances. The flow manager creates one handler per flow; "f1" is
\* the flow of the single-flow specifications, "f2" runs beside it in
\* SpecTwoFlows.
Flows == {"f1", "f2"}

FirstFlow == {"f1"}

\* an attribute that was never assigned (app_id, location_id and api are only
\* annotated on the class)
Unset == "UNSET"

\* ---- credentials, as the characters the user typed ----
HexDigits == {"0", "1", "2", "3", "4", "5", "6", "7", "8", "9",
              "a", "b", "c", "d", "e", "f", "A", "B", "C", "D", "E", "F"}

Chars(pattern, n) == [i \in 1..n |-> pattern[((i - 1) % Len(pattern)) + 1]]

Hex32Chars == Chars(<<"0", "a", "F", "9">>, 32)

UuidChars ==
    Chars(<<"1", "b">>, 8) \o <<"-">> \o Chars(<<"C">>, 4) \o <<"-">> \o Chars(<<"4", "d">>, 4)
        \o <<"-">> \o Chars(<<"e">>, 4) \o <<"-">> \o Chars(<<"0", "f", "7">>, 12)

TokenChars(t) ==
    CASE t = "hex32"         -> Hex32Chars
      [] t = "uuid"          -> UuidChars
      [] t = "hex32_newline" -> Hex32Chars \o <<"\n">>
      [] t = "hex31"         -> SubSeq(Hex32Chars, 1, 31)
      [] t = "uuid_no_hyphens_33" -> Hex32Chars \o <<"0">>
      [] t = "not-a-uuid"    -> <<"n", "o", "t", "-", "a", "-", "u", "u", "i", "d">>

Tokens == {"hex32", "uuid", "hex32_newline", "hex31", "uuid_no_hyphens_33", "not-a-uuid"}

AllHex(s) == \A i \in DOMAIN s : s[i] \in HexDigits

\* [0-9a-fA-F]{32}
IsHex32(s) == Len(s) = 32 /\ AllHex(s)

\* [0-9a-fA-F]{8}-[0-9a-fA-F]{4}-[0-9a-fA-F]{4}-[0-9a-fA-F]{4}-[0-9a-fA-F]{12}
IsHyphenatedUuid(s) ==
    /\ Len(s) = 36
    /\ \A i \in DOMAIN s :
          IF i \in {9, 14, 19, 24} THEN s[i] = "-" ELSE s[i] \in HexDigits

\* the whole string has one of the two forms
FullMatch(s) == IsHex32(s) \/ IsHyphenatedUuid(s)

\* const.py lines 61-62 and config_flow.py line 99, VAL_UID_MATCHER.match: the
\* pattern is anchored with ^ and $, and $ also matches just before a newline
\* that ends the string
VAL_UID_MATCHER(s) ==
    \/ FullMatch(s)
    \/ /\ Len(s) > 0
       /\ s[Len(s)] = "\n"
       /\ FullMatch(SubSeq(s, 1, Len(s) - 1))

\* ---- inputs of the steps ----
NoInput ==
    [given |-> FALSE, access_token |-> NoValue, location_id |-> NoValue,
     installed_app_id |-> NoValue, refresh_token |-> NoValue]

\* the empty dict a form without fields is submitted with
EmptyInput == [NoInput EXCEPT !.given = TRUE]

TokenInput(t) == [EmptyInput EXCEPT !.access_token = t]

LocationInput(l) == [EmptyInput EXCEPT !.location_id = l]

AuthInput(i, r) == [EmptyInput EXCEPT !.installed_app_id = i, !.refresh_token = r]

\* `if user_input:` - a dict with at least one key
Truthy(input) ==
    /\ input.given
    /\ \/ input.access_token # NoValue
       \/ input.location_id # NoValue
       \/ input.installed_app_id # NoValue
       \/ input.refresh_token # NoValue

\* what the authorization callback delivers: both values, or only one of them
AuthPayloads ==
    {AuthInput("installed_1", "refresh_1"), AuthInput("installed_2", "refresh_2"),
     AuthInput("installed_1", NoValue), AuthInput(NoValue, "refresh_1")}

\* what api.locations() may return
LocationLists == {<<>>, <<"loc_1">>, <<"loc_1", "loc_2">>}

\* how the remote calls of async_step_pat may turn out
PatOutcomes == {"found", "find_error", "refresh_error", "update_error",
                "created", "create_error"}

\* ---- results of the steps ----
NoResult ==
    [type |-> "none", step_id |-> NoValue, error |-> NoValue, reason |-> NoValue,
     options |-> {}, url |-> <<>>]

\* async_show_form
ShowForm(step, err, opts) ==
    [NoResult EXCEPT !.type = "form", !.step_id = step, !.error = err, !.options = opts]

\* lines 67 and 79-82: the confirmation form, with the webhook URL as its
\* description placeholder
ConfirmForm == [ShowForm("user", NoValue, {}) EXCEPT !.url = <<"webhook_url">>]

\* async_abort
Abort(reason) == [NoResult EXCEPT !.type = "abort", !.reason = reason]

\* async_external_step
ExternalStep(step, url) == [NoResult EXCEPT !.type = "external", !.step_id = step, !.url = url]

\* async_create_entry
CreateEntry == [NoResult EXCEPT !.type = "create_entry"]

\* lines 49-56
NewSession ==
    [access_token |-> NoValue, oauth_client_secret |-> NoValue, oauth_client_id |-> NoValue,
     installed_app_id |-> NoValue, refresh_token |-> NoValue, endpoints_initialized |-> FALSE,
     api |-> Unset, app_id |-> Unset, location_id |-> Unset]

\* lines 164-172: the data of the config entry
EntryData(s) ==
    [access_token |-> s.access_token, refresh_token |-> s.refresh_token,
     client_id |-> s.oauth_client_id, client_secret |-> s.oauth_client_secret,
     location_id |-> s.location_id, app_id |-> s.app_id,
     installed_app_id |-> s.installed_app_id]

\* what a step hands back: the attributes, the result, the entry data when one
\* is created, the remote calls made, the steps run, the apps registered and
\* the locations listed
Outcome(s, r, d, c, t, reg, locs) ==
    [session |-> s, result |-> r, data |-> d, calls |-> c, trail |-> t,
     registered |-> reg, locations |-> locs]

NoData == EntryData(NewSession)

Ran(step, input) == <<[step |-> step, input |-> input]>>

NotListed == <<"not called">>

\* an entry is created whatever the input
step_authorize_AlwaysCreates(s, input) ==
    LET s2 == [s EXCEPT !.installed_app_id = input.installed_app_id,
                        !.refresh_token = input.refresh_token]
    IN Outcome(s2, CreateEntry, EntryData(s2), <<>>, Ran("authorize", input), {}, NotListed)

\* lines 154-177
step_authorize(s, input) ==
    IF Truthy(input)
    THEN LET s2 == [s EXCEPT !.installed_app_id = input.installed_app_id,
                             !.refresh_token = input.refresh_token]
         IN Outcome(s2, CreateEntry, EntryData(s2), <<>>, Ran("authorize", input), {}, NotListed)
    ELSE Outcome(s, ExternalStep("authorize", <<s.app_id, s.location_id>>), NoData, <<>>,
                 Ran("authorize", input), {}, NotListed)

\* the listing is skipped once a location is stored
step_select_location_SkipWhenStored(s, input, locs) ==
    IF ~input.given \/ input.location_id = NoValue
    THEN IF s.location_id # Unset
         THEN LET next == step_authorize(s, NoInput)
              IN [next EXCEPT !.trail = Ran("select_location", input) \o @]
         ELSE IF locs = <<>>
              THEN Outcome(s, Abort("no_available_locations"), NoData, <<"listLocations">>,
                           Ran("select_location", input), {}, locs)
              ELSE Outcome(s, ShowForm("select_location", NoValue, Range(locs)), NoData,
                           <<"listLocations">>, Ran("select_location", input), {}, locs)
    ELSE LET s2 == [s EXCEPT !.location_id = input.location_id]
             next == step_authorize(s2, NoInput)
         IN [next EXCEPT !.trail = Ran("select_location", input) \o @]

\* an empty list of locations is offered like any other
step_select_location_NoAbort(s, input, locs) ==
    IF ~input.given \/ input.location_id = NoValue
    THEN Outcome(s, ShowForm("select_location", NoValue, Range(locs)), NoData,
                 <<"listLocations">>, Ran("select_location", input), {}, locs)
    ELSE LET s2 == [s EXCEPT !.location_id = input.location_id]
             next == step_authorize(s2, NoInput)
         IN [next EXCEPT !.trail = Ran("select_location", input) \o @]

\* lines 128-152
step_select_location(s, input, locs) ==
    IF ~input.given \/ input.location_id = NoValue
    THEN IF locs = <<>>
         THEN Outcome(s, Abort("no_available_locations"), NoData, <<"listLocations">>,
                      Ran("select_location", input), {}, locs)
         ELSE Outcome(s, ShowForm("select_location", NoValue, Range(locs)), NoData,
                      <<"listLocations">>, Ran("select_location", input), {}, locs)
    ELSE LET s2 == [s EXCEPT !.location_id = input.location_id]
             next == step_authorize(s2, NoInput)
         IN [next EXCEPT !.trail = Ran("select_location", input) \o @]

\* lines 179-185
show_step_pat(s, err, made, input) ==
    Outcome(s, ShowForm("pat", err, {}), NoData, made, Ran("pat", input), {}, NotListed)

\* lines 106-118: the calls made for each way they may turn out, the
\* registration with the dispatcher included; a call that raised
\* APIResponseError or ClientResponseError is followed by "raised"
PatCalls(outcome) ==
    CASE outcome = "found"         -> <<"findApp", "refresh", "updateApp", "setup_smartapp">>
      [] outcome = "find_error"    -> <<"findApp", "raised">>
      [] outcome = "refresh_error" -> <<"findApp", "refresh", "raised">>
      [] outcome = "update_error"  -> <<"findApp", "refresh", "updateApp", "raised">>
      [] outcome = "created"       -> <<"findApp", "createApp", "setup_smartapp">>
      [] outcome = "create_error"  -> <<"findApp", "createApp", "raised">>

\* a remote error is logged and the step goes on to the locations
step_pat_AdvanceOnError(s, input, outcome, locs) ==
    IF ~input.given \/ input.access_token = NoValue
    THEN show_step_pat(s, NoValue, <<>>, input)
    ELSE LET s1 == [s EXCEPT !.access_token = input.access_token]
         IN IF ~VAL_UID_MATCHER(TokenChars(s1.access_token))
            THEN show_step_pat(s1, "token_invalid_format", <<>>, input)
            ELSE LET s2 == [s1 EXCEPT !.api = s1.access_token]
                     s3 == IF outcome \in {"found", "find_error", "refresh_error", "update_error"}
                           THEN [s2 EXCEPT !.app_id = "app_found"]
                           ELSE [s2 EXCEPT !.oauth_client_id = "client_id_1",
                                           !.oauth_client_secret = "client_secret_1",
                                           !.app_id = "app_created"]
                     next == step_select_location(s3, NoInput, locs)
                 IN [next EXCEPT !.trail = Ran("pat", input) \o @,
                                 !.calls = PatCalls(outcome) \o @,
                                 !.registered = {s3.app_id} \cup @]

\* the app is not registered with the dispatcher
step_pat_NoRegister(s, input, outcome, locs) ==
    IF ~input.given \/ input.access_token = NoValue
    THEN show_step_pat(s, NoValue, <<>>, input)
    ELSE LET s1 == [s EXCEPT !.access_token = input.access_token]
         IN IF ~VAL_UID_MATCHER(TokenChars(s1.access_token))
            THEN show_step_pat(s1, "token_invalid_format", <<>>, input)
            ELSE LET s2 == [s1 EXCEPT !.api = s1.access_token]
                 IN IF outcome \in {"find_error", "refresh_error", "update_error", "create_error"}
                    THEN show_step_pat(s2, "app_setup_error", PatCalls(outcome), input)
                    ELSE LET s3 == IF outcome = "found"
                                   THEN [s2 EXCEPT !.app_id = "app_found"]
                                   ELSE [s2 EXCEPT !.oauth_client_id = "client_id_1",
                                                   !.oauth_client_secret = "client_secret_1",
                                                   !.app_id = "app_created"]
                             next == step_select_location(s3, NoInput, locs)
                         IN [next EXCEPT !.trail = Ran("pat", input) \o @,
                                         !.calls = SubSeq(PatCalls(outcome), 1,
                                                          Len(PatCalls(outcome)) - 1) \o @]

\* lines 87-126
step_pat(s, input, outcome, locs) ==
    IF ~input.given \/ input.access_token = NoValue
    THEN show_step_pat(s, NoValue, <<>>, input)
    ELSE LET s1 == [s EXCEPT !.access_token = input.access_token]
         IN IF ~VAL_UID_MATCHER(TokenChars(s1.access_token))
            THEN show_step_pat(s1, "token_invalid_format", <<>>, input)
            ELSE LET s2 == [s1 EXCEPT !.api = s1.access_token]
                 IN IF outcome \in {"find_error", "refresh_error", "update_error", "create_error"}
                    THEN show_step_pat(s2, "app_setup_error", PatCalls(outcome), input)
                    ELSE LET s3 == IF outcome = "found"
                                   THEN [s2 EXCEPT !.app_id = "app_found"]
                                   ELSE [s2 EXCEPT !.oauth_client_id = "client_id_1",
                                                   !.oauth_client_secret = "client_secret_1",
                                                   !.app_id = "app_created"]
                             next == step_select_location(s3, NoInput, locs)
                         IN [next EXCEPT !.trail = Ran("pat", input) \o @,
                                         !.calls = PatCalls(outcome) \o @,
                                         !.registered = {s3.app_id} \cup @]

\* the webhook is validated only before the confirmation form is shown
step_user_ValidateOnlyWithoutInput(s, input, webhookValid) ==
    IF ~input.given
    THEN IF ~webhookValid
         THEN Outcome(s, Abort("invalid_webhook_url"), NoData, <<>>, Ran("user", input),
                      {}, NotListed)
         ELSE Outcome(s, ConfirmForm, NoData, <<>>, Ran("user", input), {}, NotListed)
    ELSE LET next == step_pat(s, NoInput, "found", <<>>)
         IN [next EXCEPT !.trail = Ran("user", input) \o @]

\* the confirmation form is skipped
step_user_SkipsConfirmation(s, input, webhookValid) ==
    IF ~webhookValid
    THEN Outcome(s, Abort("invalid_webhook_url"), NoData, <<>>, Ran("user", input), {}, NotListed)
    ELSE LET next == step_pat(s, NoInput, "found", <<>>)
         IN [next EXCEPT !.trail = Ran("user", input) \o @]

\* lines 67-85, after setup_smartapp_endpoint
step_user(s, input, webhookValid) ==
    IF ~webhookValid
    THEN Outcome(s, Abort("invalid_webhook_url"), NoData, <<>>, Ran("user", input), {}, NotListed)
    ELSE IF ~input.given
         THEN Outcome(s, ConfirmForm, NoData, <<>>, Ran("user", input), {}, NotListed)
         ELSE LET next == step_pat(s, NoInput, "found", <<>>)
              IN [next EXCEPT !.trail = Ran("user", input) \o @]

----------------------------------------------------------------------------
NotAwaiting == [pending |-> FALSE, input |-> NoInput]

Validity(webhookValid) == IF webhookValid THEN "valid" ELSE "invalid"

\* ---- the milestones of a handshake, read off what a call did ----
NoHandshake ==
    [events |-> <<>>, token |-> NoValue, status |-> "none",
     app |-> Unset, offered |-> {}, location |-> Unset]

\* milestone e happened (again): it becomes the latest
Mark(h, e) == [h EXCEPT !.events = SelectSeq(@, LAMBDA x : x # e) \o <<e>>]

\* line 70 let the call through
WebhookValidated(out) ==
    ~(out.result.type = "abort" /\ out.result.reason = "invalid_webhook_url")

\* lines 106-118 ran to the end: the app was found or created and registered
AppReady(out) == "setup_smartapp" \in Range(out.calls)

\* what one step of a call adds
Note(h, out, e) ==
    CASE e.step = "user" ->
             IF ~WebhookValidated(out) THEN h
             ELSE IF e.input.given THEN Mark(Mark(h, "validated"), "acknowledged")
             ELSE Mark(h, "validated")
      [] e.step = "pat" ->
             IF ~e.input.given \/ e.input.access_token = NoValue THEN h
             ELSE IF AppReady(out)
                  THEN [Mark(h, "accepted") EXCEPT !.token = e.input.access_token,
                                                   !.status = "accepted",
                                                   !.app = out.session.app_id]
             ELSE [h EXCEPT !.token = e.input.access_token,
                            !.status = IF out.calls = <<>> THEN "rejected" ELSE "failed"]
      [] e.step = "select_location" ->
             IF e.input.given /\ e.input.location_id # NoValue
             THEN [Mark(h, "selected") EXCEPT !.location = e.input.location_id]
             ELSE IF out.locations # NotListed /\ out.locations # <<>>
                  THEN [Mark(h, "listed") EXCEPT !.offered = Range(out.locations)]
             ELSE h
      [] e.step = "authorize" ->
             IF out.result.type = "create_entry" THEN Mark(h, "created") ELSE h

RECURSIVE Noted(_, _, _)
\* the steps of a call, in the order they ran
Noted(h, out, k) ==
    IF k > Len(out.trail) THEN h
    ELSE Noted(Note(h, out, out.trail[k]), out, k + 1)

\* a created entry leaves the flow at the step that created it
NextStep_EntryKeepsFlow(r) ==
    CASE r.type \in {"form", "external"} -> r.step_id
      [] r.type = "create_entry"         -> "authorize"
      [] r.type = "abort"                -> "aborted"

\* the flow manager's bookkeeping of a result: a form or an external step names
\* the step to call next; an abort or a created entry ends the flow
NextStep(r) ==
    CASE r.type \in {"form", "external"} -> r.step_id
      [] r.type = "create_entry"         -> "done"
      [] r.type = "abort"                -> "aborted"

\* the instance attributes are shared by every handler
Return_SharedSession(f, before, out) ==
    /\ session' = [g \in Flows |-> out.session]
    /\ result' = [result EXCEPT ![f] = out.result]
    /\ trail' = [trail EXCEPT ![f] = out.trail]
    /\ calls' = [calls EXCEPT ![f] = out.calls]
    /\ preSession' = [preSession EXCEPT ![f] = before]
    /\ locations' = [locations EXCEPT ![f] = out.locations]
    /\ registered' = registered \cup out.registered
    /\ handshake' = [handshake EXCEPT ![f] = Noted(@, out, 1)]
    /\ cur_step' = [cur_step EXCEPT ![f] = NextStep(out.result)]
    /\ entries' = IF out.result.type = "create_entry"
                  THEN entries \cup {[flow |-> f, data |-> out.data]}
                  ELSE entries

\* a call of a step returns `out`
Return(f, before, out) ==
    /\ session' = [session EXCEPT ![f] = out.session]
    /\ result' = [result EXCEPT ![f] = out.result]
    /\ trail' = [trail EXCEPT ![f] = out.trail]
    /\ calls' = [calls EXCEPT ![f] = out.calls]
    /\ preSession' = [preSession EXCEPT ![f] = before]
    /\ locations' = [locations EXCEPT ![f] = out.locations]
    /\ registered' = registered \cup out.registered
    /\ handshake' = [handshake EXCEPT ![f] = Noted(@, out, 1)]
    /\ cur_step' = [cur_step EXCEPT ![f] = NextStep(out.result)]
    /\ entries' = IF out.result.type = "create_entry"
                  THEN entries \cup {[flow |-> f, data |-> out.data]}
                  ELSE entries

\* the endpoints are never marked initialized
async_step_user_NoFlag(f) ==
    /\ UNCHANGED <<syncVars, webhookVars, diffVars>>
    /\ cur_step[f] = "user"
    /\ ~awaiting[f].pending
    /\ \E input \in {NoInput, EmptyInput} :
          /\ endpointCalls' = [endpointCalls EXCEPT ![f] = @ + 1]
          /\ awaiting' = [awaiting EXCEPT ![f] = [pending |-> TRUE, input |-> input]]
          /\ UNCHANGED <<cur_step, session, result, trail, calls, preSession, locations,
                         registered, validated, handshake, entries>>

\* lines 58-85: async_step_user is called. The first call marks the endpoints
\* initialized and suspends in setup_smartapp_endpoint; a later call goes
\* straight on.
async_step_user(f) ==
    /\ UNCHANGED <<syncVars, webhookVars, diffVars>>
    /\ cur_step[f] = "user"
    /\ ~awaiting[f].pending
    /\ \E input \in {NoInput, EmptyInput}, webhookValid \in BOOLEAN :
          IF ~session[f].endpoints_initialized
          THEN /\ session' = [session EXCEPT ![f].endpoints_initialized = TRUE]
               /\ endpointCalls' = [endpointCalls EXCEPT ![f] = @ + 1]
               /\ awaiting' = [awaiting EXCEPT ![f] = [pending |-> TRUE, input |-> input]]
               /\ UNCHANGED <<cur_step, result, trail, calls, preSession, locations,
                              registered, validated, handshake, entries>>
          ELSE /\ Return(f, session[f], step_user(session[f], input, webhookValid))
               /\ validated' = [validated EXCEPT ![f] = Validity(webhookValid)]
               /\ UNCHANGED <<awaiting, endpointCalls>>

\* lines 64-85: setup_smartapp_endpoint returns and the call goes on
async_step_user_resume(f) ==
    /\ UNCHANGED <<syncVars, webhookVars, diffVars>>
    /\ cur_step[f] \notin {"done", "aborted"}
    /\ awaiting[f].pending
    /\ \E webhookValid \in BOOLEAN :
          /\ Return(f, [session[f] EXCEPT !.endpoints_initialized = FALSE],
                    step_user(session[f], awaiting[f].input, webhookValid))
          /\ validated' = [validated EXCEPT ![f] = Validity(webhookValid)]
    /\ awaiting' = [awaiting EXCEPT ![f] = NotAwaiting]
    /\ UNCHANGED endpointCalls

\* lines 58-85: async_step_user is called again while its first call is still
\* suspended in setup_smartapp_endpoint (two requests for the same flow)
async_step_user_reenter(f) ==
    /\ UNCHANGED <<syncVars, webhookVars, diffVars>>
    /\ cur_step[f] = "user"
    /\ awaiting[f].pending
    /\ \E input \in {NoInput, EmptyInput}, webhookValid \in BOOLEAN :
          IF ~session[f].endpoints_initialized
          THEN /\ session' = [session EXCEPT ![f].endpoints_initialized = TRUE]
               /\ endpointCalls' = [endpointCalls EXCEPT ![f] = @ + 1]
               /\ UNCHANGED <<cur_step, result, trail, calls, preSession, locations,
                              registered, validated, handshake, entries>>
          ELSE /\ Return(f, session[f], step_user(session[f], input, webhookValid))
               /\ validated' = [validated EXCEPT ![f] = Validity(webhookValid)]
               /\ UNCHANGED endpointCalls
    /\ UNCHANGED awaiting

\* lines 87-126: the credential form is submitted (or the step is called with
\* no input)
async_step_pat_with(f, tokens, outcomes, lists) ==
    /\ UNCHANGED <<syncVars, webhookVars, diffVars>>
    /\ cur_step[f] = "pat"
    /\ \E input \in {NoInput, EmptyInput} \cup {TokenInput(t) : t \in tokens},
          outcome \in outcomes, locs \in lists :
          Return(f, session[f], step_pat(session[f], input, outcome, locs))
    /\ UNCHANGED <<awaiting, endpointCalls, validated>>

async_step_pat(f) == async_step_pat_with(f, Tokens, PatOutcomes, LocationLists)

\* lines 128-152: the location form is submitted with one of the locations it
\* offered (or the step is called with no input)
async_step_select_location_with(f, lists) ==
    /\ UNCHANGED <<syncVars, webhookVars, diffVars>>
    /\ cur_step[f] = "select_location"
    /\ \E input \in {NoInput, EmptyInput} \cup {LocationInput(l) : l \in result[f].options},
          locs \in lists :
          Return(f, session[f], step_select_location(session[f], input, locs))
    /\ UNCHANGED <<awaiting, endpointCalls, validated>>

async_step_select_location(f) == async_step_select_location_with(f, LocationLists)

\* lines 154-177: the authorization callback arrives (or the step is called
\* with no input)
async_step_authorize_with(f, payloads) ==
    /\ UNCHANGED <<syncVars, webhookVars, diffVars>>
    /\ cur_step[f] = "authorize"
    /\ \E input \in {NoInput, EmptyInput} \cup payloads :
          Return(f, session[f], step_authorize(session[f], input))
    /\ UNCHANGED <<awaiting, endpointCalls, validated>>

async_step_authorize(f) == async_step_authorize_with(f, AuthPayloads)

\* lines 128-152 called again with no input after a location was stored; the
\* flow manager never does this, the step is called directly
reinvoke_select_location(f) ==
    /\ UNCHANGED <<syncVars, webhookVars, diffVars>>
    /\ cur_step[f] = "authorize"
    /\ \E locs \in LocationLists :
          Return(f, session[f], step_select_location(session[f], NoInput, locs))
    /\ UNCHANGED <<awaiting, endpointCalls, validated>>

NextFlow ==
    \E f \in FirstFlow :
        \/ async_step_user(f)
        \/ async_step_user_resume(f)
        \/ async_step_pat(f)
        \/ async_step_select_location(f)
        \/ async_step_authorize(f)

NextReenter ==
    \E f \in FirstFlow :
        \/ async_step_user(f)
        \/ async_step_user_resume(f)
        \/ async_step_user_reenter(f)
        \/ async_step_pat(f)
        \/ async_step_select_location(f)
        \/ async_step_authorize(f)

\* What each of two concurrent flows is given: the two users type different
\* credentials, see different locations and receive different callbacks.
TokensOf(f) == IF f = "f1" THEN {"hex32", "hex31"} ELSE {"uuid", "not-a-uuid"}

ListsOf(f) == IF f = "f1" THEN {<<>>, <<"loc_1">>} ELSE {<<"loc_2">>}

PayloadsOf(f) ==
    IF f = "f1" THEN {AuthInput("installed_1", "refresh_1")}
    ELSE {AuthInput("installed_2", "refresh_2")}

OutcomesOf(f) == IF f = "f1" THEN {"found", "update_error"} ELSE {"created", "create_error"}

async_step_pat_own(f) == async_step_pat_with(f, TokensOf(f), OutcomesOf(f), ListsOf(f))

async_step_select_location_own(f) == async_step_select_location_with(f, ListsOf(f))

async_step_authorize_own(f) == async_step_authorize_with(f, PayloadsOf(f))

NextTwoFlows ==
    \E f \in Flows :
        \/ async_step_user(f)
        \/ async_step_user_resume(f)
        \/ async_step_pat_own(f)
        \/ async_step_select_location_own(f)
        \/ async_step_authorize_own(f)

NextReinvoke ==
    \E f \in FirstFlow :
        \/ async_step_user(f)
        \/ async_step_user_resume(f)
        \/ async_step_pat(f)
        \/ async_step_select_location(f)
        \/ async_step_authorize(f)
        \/ reinvoke_select_location(f)

----------------------------------------------------------------------------
vars == <<syncVars, webhookVars, flowVars, diffVars>>

\* The reconciler's start: a device snapshot and the subscriptions the remote
\* already holds, no pass started. Nothing else has run: no webhook request
\* was received and every flow is freshly constructed (config_flow.py lines
\* 49-56), about to be called at its first step.
InitSync ==
    /\ devices \in SeqsUpTo(DeviceKinds, MaxDevices)
    /\ \E k \in 0..MaxInitSubs : \E f \in [1..k -> RemoteCaps] :
          remote = {[id |-> i, capability |-> f[i]] : i \in 1..k}
    /\ remote0 = remote
    /\ pc = [p \in Passes |-> "idle"]
    /\ capabilities = [p \in Passes |-> {}]
    /\ subscriptions = [p \in Passes |-> <<>>]
    /\ tasks = [p \in Passes |-> <<>>]
    /\ warned = [p \in Passes |-> FALSE]
    /\ faults = 0
    /\ listCalls = [p \in Passes |-> 0]
    /\ clean = [p \in Passes |-> FALSE]
    /\ converged = FALSE
    /\ afterConv = [p \in Passes |-> FALSE]
    /\ wh_pc = "idle"
    /\ request = NoValue
    /\ data = NoValue
    /\ managerArgs = NoValue
    /\ managed = NotManaged
    /\ response = NoValue
    /\ handled = 0
    /\ cur_step = [f \in Flows |-> "user"]
    /\ session = [f \in Flows |-> NewSession]
    /\ result = [f \in Flows |-> NoResult]
    /\ trail = [f \in Flows |-> <<>>]
    /\ calls = [f \in Flows |-> <<>>]
    /\ preSession = [f \in Flows |-> NewSession]
    /\ locations = [f \in Flows |-> NotListed]
    /\ awaiting = [f \in Flows |-> NotAwaiting]
    /\ endpointCalls = [f \in Flows |-> 0]
    /\ registered = {}
    /\ validated = [f \in Flows |-> "none"]
    /\ handshake = [f \in Flows |-> NoHandshake]
    /\ entries = {}
    /\ args = NoArgs
    /\ ret = NoRet

\* The start of the webhook handler and of the handshake: as above, with no
\* devices and no subscriptions.
InitIdle ==
    /\ devices = <<>>
    /\ remote = {}
    /\ remote0 = {}
    /\ pc = [p \in Passes |-> "idle"]
    /\ capabilities = [p \in Passes |-> {}]
    /\ subscriptions = [p \in Passes |-> <<>>]
    /\ tasks = [p \in Passes |-> <<>>]
    /\ warned = [p \in Passes |-> FALSE]
    /\ faults = 0
    /\ listCalls = [p \in Passes |-> 0]
    /\ clean = [p \in Passes |-> FALSE]
    /\ converged = FALSE
    /\ afterConv = [p \in Passes |-> FALSE]
    /\ wh_pc = "idle"
    /\ request = NoValue
    /\ data = NoValue
    /\ managerArgs = NoValue
    /\ managed = NotManaged
    /\ response = NoValue
    /\ handled = 0
    /\ cur_step = [f \in Flows |-> "user"]
    /\ session = [f \in Flows |-> NewSession]
    /\ result = [f \in Flows |-> NoResult]
    /\ trail = [f \in Flows |-> <<>>]
    /\ calls = [f \in Flows |-> <<>>]
    /\ preSession = [f \in Flows |-> NewSession]
    /\ locations = [f \in Flows |-> NotListed]
    /\ awaiting = [f \in Flows |-> NotAwaiting]
    /\ endpointCalls = [f \in Flows |-> 0]
    /\ registered = {}
    /\ validated = [f \in Flows |-> "none"]
    /\ handshake = [f \in Flows |-> NoHandshake]
    /\ entries = {}
    /\ args = NoArgs
    /\ ret = NoRet

\* the reconciler, its passes free to overlap
SpecSync == InitSync /\ [][NextSync]_vars

\* the reconciler, each pass called after the one before it has returned
SpecSeq == InitSync /\ [][NextSeq]_vars

\* the diff of the reconciler, computed once for inputs of every kind
SpecReconcile == InitIdle /\ [][NextReconcile]_vars

\* the webhook handler alone
SpecWebhook == InitIdle /\ [][NextWebhook]_vars

\* the handshake, its steps called by the flow manager
SpecFlow == InitIdle /\ [][NextFlow]_vars

\* the handshake, with async_step_user also called while its first call is
\* suspended
SpecReenter == InitIdle /\ [][NextReenter]_vars

\* two handshakes, their steps interleaved in any order
SpecTwoFlows == InitIdle /\ [][NextTwoFlows]_vars

\* the handshake, with select_location also called directly
SpecReinvoke == InitIdle /\ [][NextReinvoke]_vars

----------------------------------------------------------------------------
\* Properties of the reconciler

CapsOf(S) == {x.capability : x \in S}

OnePerCapability(S) == \A x, y \in S : x.capability = y.capability => x = y

Listed(p) == pc[p] \in {"gather", "done"}

\* C1 (convergence): once a pass has returned with its list call and every
\* create and delete call having succeeded, and no other pass has changed the
\* remote since that pass listed, the remote holds exactly one subscription
\* for each desired capability and none for any other.
C1_Convergence ==
    \A p \in Passes :
        (pc[p] = "done" /\ AllOk(p) /\ clean[p])
            => /\ CapsOf(remote) = DesiredCapabilities(devices)
               /\ OnePerCapability(remote)

\* a pass converged from a remote holding a duplicate of a desired capability
\* and lacking another: it deleted and it created
C1_Witness ==
    \E p \in Passes :
        /\ pc[p] = "done" /\ AllOk(p) /\ clean[p]
        /\ ~OnePerCapability(remote0)
        /\ \E i, j \in DOMAIN tasks[p] :
              tasks[p][i].kind = "delete" /\ tasks[p][j].kind = "create"

\* C2 (idempotence): a pass that lists after an earlier pass has finished with
\* every call succeeding, the remote untouched in between, has no create and
\* no delete task.
C2_Idempotence ==
    \A p \in Passes : (afterConv[p] /\ Listed(p)) => tasks[p] = <<>>

\* the second pass has returned after a first pass that did real work
C2_Witness ==
    \E p, q \in Passes :
        /\ p # q
        /\ afterConv[p] /\ pc[p] = "done"
        /\ pc[q] = "done" /\ tasks[q] # <<>> /\ AllOk(q)

\* C3 (uniqueness): when the remote starts with at most one subscription per
\* capability, it holds at most one per capability in every reachable state,
\* whatever passes run and however they overlap.
C3_AtMostOnePerCapability ==
    OnePerCapability(remote0) => OnePerCapability(remote)

\* C5 (errors absorbed): no pass ever raises to its caller, whichever remote
\* call fails.
C5_NoPassRaises == \A p \in Passes : pc[p] # "raised"

\* C6 (denylist): a pass never has a create task for an ignored capability,
\* every listed subscription for an ignored capability has a delete task, and
\* the remote never gains a subscription for an ignored capability.
C6_Denylist ==
    /\ \A p \in Passes : Listed(p) =>
          /\ \A i \in DOMAIN tasks[p] :
                tasks[p][i].kind = "create" => tasks[p][i].capability \notin IGNORED_CAPABILITIES
          /\ \A j \in DOMAIN subscriptions[p] :
                subscriptions[p][j].capability \in IGNORED_CAPABILITIES
                    => \E i \in DOMAIN tasks[p] :
                          /\ tasks[p][i].kind = "delete"
                          /\ tasks[p][i].id = subscriptions[p][j].id
    /\ \A x \in remote : x.capability \in IGNORED_CAPABILITIES => x \in remote0

\* every device reports the ignored capabilities and the remote listed a
\* subscription for one
C6_Witness ==
    \E p \in Passes :
        /\ Listed(p)
        /\ Len(devices) > 0
        /\ \A d \in DOMAIN devices : IGNORED_CAPABILITIES \subseteq Range(devices[d])
        /\ \E j \in DOMAIN subscriptions[p] :
              subscriptions[p][j].capability \in IGNORED_CAPABILITIES

IdsOf(S) == {x.id : x \in S}

\* the remote shows what task t of a returned pass did
InEffect(t, S) ==
    IF t.kind = "create" THEN t.capability \in CapsOf(S) ELSE t.id \notin IdsOf(S)

\* C12 (failure isolation): in every step of a pass, a create or delete call
\* that succeeds changes the remote by exactly its own subscription, a call
\* that fails leaves the remote as it is (nothing applied is rolled back), a
\* finished call is never redone or undone, and the pass returns only when none
\* of its calls is pending; when it has returned, the remote shows the effect
\* of each call that succeeded.
C12_FailureIsolation ==
    [][\A p \in Passes :
          /\ \A i \in DOMAIN tasks[p] \cap DOMAIN tasks'[p] :
                LET t == tasks[p][i]
                    u == tasks'[p][i]
                IN /\ t.status # "pending" => u = t
                   /\ (t.status = "pending" /\ u.status = "ok" /\ t.kind = "create") =>
                         /\ remote \subseteq remote'
                         /\ Cardinality(remote' \ remote) = 1
                         /\ CapsOf(remote' \ remote) = {t.capability}
                   /\ (t.status = "pending" /\ u.status = "ok" /\ t.kind = "delete") =>
                         /\ remote' \subseteq remote
                         /\ IdsOf(remote \ remote') = {t.id}
                   /\ (t.status = "pending" /\ u.status = "failed") => remote' = remote
          /\ pc'[p] = "done" =>
                \A i \in DOMAIN tasks'[p] :
                    /\ tasks'[p][i].status # "pending"
                    /\ tasks'[p][i].status = "ok" => InEffect(tasks'[p][i], remote')]_vars

\* a pass has returned with two of its calls failed and a third one applied
C12_Witness ==
    \E p \in Passes :
        /\ pc[p] = "done"
        /\ \E i, j, k \in DOMAIN tasks[p] :
              /\ i # j
              /\ tasks[p][i].status = "failed"
              /\ tasks[p][j].status = "failed"
              /\ tasks[p][k].status = "ok"
              /\ InEffect(tasks[p][k], remote)

\* pass q returned with a failed call before pass p was called
FollowsFailed(p, q) ==
    /\ PassNo(q) < PassNo(p)
    /\ pc[q] = "done"
    /\ \E i \in DOMAIN tasks[q] : tasks[q][i].status = "failed"
    /\ Listed(p)

CreatesOf(p) == {tasks[p][i].capability : i \in {j \in DOMAIN tasks[p] : tasks[p][j].kind = "create"}}

DeletesOf(p) == {tasks[p][i].id : i \in {j \in DOMAIN tasks[p] : tasks[p][j].kind = "delete"}}

\* the listed subscriptions pass p leaves alone
KeptBy(p) == {x \in Range(subscriptions[p]) : x.id \notin DeletesOf(p)}

\* C13 (corrective retry): a pass called after a pass in which some call
\* failed has a create task for exactly the desired capabilities no listed
\* subscription carries, and a delete task for every listed subscription of an
\* undesired capability and for all but one of each desired capability; when
\* it returns with every call succeeded, the remote holds exactly one
\* subscription per desired capability.
C13_CorrectiveRetry ==
    \A p, q \in Passes :
        FollowsFailed(p, q) =>
            /\ CreatesOf(p) = DesiredCapabilities(devices) \ CapsOf(Range(subscriptions[p]))
            /\ \A x \in Range(subscriptions[p]) :
                  x.capability \notin DesiredCapabilities(devices) => x.id \in DeletesOf(p)
            /\ OnePerCapability(KeptBy(p))
            /\ CapsOf(KeptBy(p)) = DesiredCapabilities(devices) \cap CapsOf(Range(subscriptions[p]))
            /\ (pc[p] = "done" /\ AllOk(p)) =>
                  /\ CapsOf(remote) = DesiredCapabilities(devices)
                  /\ OnePerCapability(remote)

\* a create and a delete of the first pass failed; the second pass issued
\* both again and returned with every call succeeded
C13_Witness ==
    \E p, q \in Passes :
        /\ FollowsFailed(p, q)
        /\ \E i, j \in DOMAIN tasks[q] :
              /\ tasks[q][i].kind = "create" /\ tasks[q][i].status = "failed"
              /\ tasks[q][j].kind = "delete" /\ tasks[q][j].status = "failed"
              /\ tasks[q][i].capability \in CreatesOf(p)
              /\ tasks[q][j].id \in DeletesOf(p)
        /\ pc[p] = "done"
        /\ AllOk(p)

\* the capabilities the devices report, less the unknown and the ignored ones
FilteredUnion(devs) ==
    (UNION {Range(devs[i]) : i \in DOMAIN devs} \cap CAPABILITIES) \ IGNORED_CAPABILITIES

CreatesIn(ts) == {ts[i].capability : i \in {j \in DOMAIN ts : ts[j].kind = "create"}}

DeletesIn(ts) == {ts[i].id : i \in {j \in DOMAIN ts : ts[j].kind = "delete"}}

\* C19 (order-independence): two device snapshots whose filtered capability
\* unions are equal get the same desired set and, against the same listing,
\* the same creations and the same deletions.
C19_OrderIndependence ==
    (args.called /\ FilteredUnion(args.devices1) = FilteredUnion(args.devices2)) =>
        /\ ret.first.desired = ret.second.desired
        /\ ret.first.desired = FilteredUnion(args.devices1)
        /\ CreatesIn(ret.first.tasks) = CreatesIn(ret.second.tasks)
        /\ DeletesIn(ret.first.tasks) = DeletesIn(ret.second.tasks)

\* two different snapshots, one the other reordered with a device repeated or
\* an unsupported device added, against a listing that makes the diff both
\* create and delete
C19_Witness ==
    /\ args.called
    /\ args.devices1 # args.devices2
    /\ Len(args.devices1) = 2 /\ Len(args.devices2) = 2
    /\ args.devices1[1] = args.devices2[2]
    /\ FilteredUnion(args.devices1) = FilteredUnion(args.devices2)
    /\ CreatesIn(ret.first.tasks) # {}
    /\ DeletesIn(ret.first.tasks) # {}

\* the subscriptions of listing L to delete for desired set T: those of a
\* capability not in T and those whose capability an earlier one carries
ExpectedDeletes(T, L) ==
    {L[i].id : i \in {j \in DOMAIN L :
                         \/ L[j].capability \notin T
                         \/ \E k \in 1..(j - 1) : L[k].capability = L[j].capability}}

\* the devices [switch, switchLevel] and [switch, thermostatMode] with one
\* existing subscription for switch
ExampleCall ==
    /\ args.called
    /\ args.devices1 = << <<"switch", "switchLevel">>, <<"switch", "thermostatMode">> >>
    /\ args.subscriptions = <<[id |-> 1, capability |-> "switch"]>>

\* C20 (diff): for desired set T and listing L the diff has a create task for
\* exactly the capabilities of T no subscription of L carries, one task each,
\* and a delete task for exactly the subscriptions of L whose capability is not
\* in T or is carried by an earlier subscription of L, one task each; the
\* example call yields creates for switchLevel and thermostatMode and no delete.
C20_DiffComputation ==
    args.called =>
        LET T  == FilteredUnion(args.devices1)
            L  == args.subscriptions
            ts == ret.first.tasks
        IN /\ ret.first.desired = T
           /\ CreatesIn(ts) = T \ CapsOf(Range(L))
           /\ DeletesIn(ts) = ExpectedDeletes(T, L)
           /\ Len(ts) = Cardinality(CreatesIn(ts)) + Cardinality(DeletesIn(ts))
           /\ ExampleCall =>
                 /\ CreatesIn(ts) = {"switchLevel", "thermostatMode"}
                 /\ DeletesIn(ts) = {}

\* the example call was made
C20_Witness ==
    /\ ExampleCall
    /\ Len(ret.first.tasks) = 2

\* C25 (quota warning): the warning is logged exactly when the desired
\* capabilities number more than 40, and warned or not, the diff is the same
\* function of the desired set and the listing: a create for each desired
\* capability not listed, a delete for each listed subscription that is
\* undesired or a duplicate, and nothing else.
C25_QuotaWarningOnly ==
    args.called =>
        LET T  == FilteredUnion(args.devices1)
            L  == args.subscriptions
            ts == ret.first.tasks
        IN /\ ret.first.warned <=> (Cardinality(T) > 40)
           /\ Cardinality(T) = 40 => ~ret.first.warned
           /\ Cardinality(T) = 41 => ret.first.warned
           /\ CreatesIn(ts) = T \ CapsOf(Range(L))
           /\ DeletesIn(ts) = ExpectedDeletes(T, L)
           /\ Len(ts) = Cardinality(T \ CapsOf(Range(L))) + Cardinality(ExpectedDeletes(T, L))

\* 41 desired capabilities: the warning is logged and the diff still creates
\* the 40 not listed and deletes the undesired subscription
C25_Witness ==
    /\ args.called
    /\ Cardinality(ret.first.desired) = 41
    /\ ret.first.warned
    /\ Cardinality(CreatesIn(ret.first.tasks)) = 40
    /\ DeletesIn(ret.first.tasks) # {}

----------------------------------------------------------------------------
\* Properties of the webhook handler

\* C4 (no fault reaches the transport): the webhook handler never raises.
C4_WebhookNeverRaises == wh_pc # "raised"

\* C18 (manager result returned): once the manager has been called it holds
\* the parsed body and the request's headers as they arrived; when it returns
\* without raising, the response has status 200 and the manager's result,
\* serialized, as its body.
C18_ManagerResultReturned ==
    /\ wh_pc \in {"handle", "responded"} =>
          /\ managerArgs.headers = request.headers
          /\ managerArgs.data = RequestJson(request.body).value
    /\ (wh_pc = "responded" /\ managed.state = "returned") =>
          /\ managed.result = ManagerResult(RequestJson(request.body).value)
          /\ response = [status |-> 200, body |-> JsonDumps(managed.result)]

\* a signed EVENT request was answered with the manager's result
C18_Witness ==
    /\ wh_pc = "responded"
    /\ managed.state = "returned"
    /\ request = [body |-> "{\"lifecycle\": \"EVENT\"}", headers |-> "signed"]
    /\ response = [status |-> 200, body |-> "{\"reply\": \"EVENT\"}"]

----------------------------------------------------------------------------
\* Properties of the handshake

\* the last call was async_step_pat with a credential
SubmittedToken(f) ==
    /\ trail[f] # <<>>
    /\ trail[f][1].step = "pat"
    /\ trail[f][1].input.access_token # NoValue

\* C7 (credential format): a credential submitted to async_step_pat that is
\* neither 32 hex characters nor a hyphenated UUID gets the credential form
\* back with token_invalid_format, the flow stays at the credential step and
\* the submission makes no remote API call.
C7_MalformedCredentialRejected ==
    \A f \in Flows :
        (SubmittedToken(f) /\ ~FullMatch(TokenChars(trail[f][1].input.access_token)))
            => /\ result[f] = ShowForm("pat", "token_invalid_format", {})
               /\ cur_step[f] = "pat"
               /\ calls[f] = <<>>

\* C8 (no partial record): every config entry has all seven fields set.
C8_RecordFullyPopulated ==
    \A e \in entries :
        /\ e.data.access_token \notin {NoValue, Unset}
        /\ e.data.refresh_token \notin {NoValue, Unset}
        /\ e.data.client_id \notin {NoValue, Unset}
        /\ e.data.client_secret \notin {NoValue, Unset}
        /\ e.data.location_id \notin {NoValue, Unset}
        /\ e.data.app_id \notin {NoValue, Unset}
        /\ e.data.installed_app_id \notin {NoValue, Unset}

\* the last call ran async_step_select_location without a location in its input
SelectedNothing(f) ==
    \E i \in DOMAIN trail[f] :
        /\ trail[f][i].step = "select_location"
        /\ trail[f][i].input.location_id = NoValue

\* the last call ran async_step_select_location with a location in its input
SelectedLocation(f) ==
    \E i \in DOMAIN trail[f] :
        /\ trail[f][i].step = "select_location"
        /\ trail[f][i].input.location_id # NoValue

ListedLocations(f) == \E i \in DOMAIN calls[f] : calls[f][i] = "listLocations"

\* C9 as stated (resumability): select_location called with no input lists the
\* locations when the session stores no location, and skips the listing and
\* goes to authorize when the session already stores one.
C9_SkipsListingWhenStored ==
    \A f \in Flows :
        SelectedNothing(f) =>
            IF preSession[f].location_id = Unset
            THEN ListedLocations(f)
            ELSE ~ListedLocations(f) /\ result[f].type = "external"

\* C9 as amended: select_location called with no input lists the locations on
\* every such call, whether or not the session stores a location, and stays
\* at the location step or aborts; called with a location in its input it
\* stores it, lists nothing and goes to authorize.
C9_ListsOnEveryCallWithoutInput ==
    \A f \in Flows :
        /\ SelectedNothing(f) =>
              /\ ListedLocations(f)
              /\ locations[f] # NotListed
              /\ result[f] \in {ShowForm("select_location", NoValue, Range(locations[f])),
                                Abort("no_available_locations")}
        /\ SelectedLocation(f) =>
              /\ ~ListedLocations(f)
              /\ session[f].location_id = trail[f][1].input.location_id
              /\ result[f] = ExternalStep("authorize",
                                          <<session[f].app_id, session[f].location_id>>)

\* select_location was called with no input while a location was stored, and
\* listed again
C9_Witness ==
    \E f \in Flows :
        /\ SelectedNothing(f)
        /\ preSession[f].location_id # Unset
        /\ ListedLocations(f)

NoLocationsAbort(f) == result[f] = Abort("no_available_locations")

HasEntry(f) == \E e \in entries : e.flow = f

\* C10 (no locations): a call in which listLocations returns nothing aborts
\* the flow with no_available_locations; the aborted flow is at neither
\* authorize nor complete, has no config entry, and nothing of it changes
\* afterwards.
C10_NoLocationsAborts ==
    [][\A f \in Flows :
          /\ (locations[f] = <<>>)' => NoLocationsAbort(f)'
          /\ NoLocationsAbort(f)' => (cur_step[f] = "aborted" /\ ~HasEntry(f))'
          /\ NoLocationsAbort(f) =>
                /\ UNCHANGED <<cur_step[f], session[f], result[f]>>
                /\ ~HasEntry(f)']_vars

\* listLocations returned nothing and the flow is aborted
C10_Witness ==
    \E f \in Flows :
        /\ locations[f] = <<>>
        /\ NoLocationsAbort(f)
        /\ cur_step[f] = "aborted"

\* everything the model keeps for flow f
FlowState(f) ==
    <<cur_step[f], session[f], result[f], trail[f], calls[f], preSession[f],
      locations[f], awaiting[f], endpointCalls[f], validated[f]>>

\* the step is a call (or the resumption of a call) of flow f
Stepped(f) == FlowState(f)' # FlowState(f)

RanStep(f, step) == \E i \in DOMAIN trail[f] : trail[f][i].step = step

Raised(f) == \E i \in DOMAIN calls[f] : calls[f][i] = "raised"

\* the last call was async_step_pat and one of its remote calls raised
PatFailed(f) == SubmittedToken(f) /\ Raised(f)

\* the last call was async_step_pat with a well-formed credential and every
\* remote call of the step returned
PatSucceeded(f) ==
    /\ SubmittedToken(f)
    /\ VAL_UID_MATCHER(TokenChars(trail[f][1].input.access_token))
    /\ ~Raised(f)

\* C11 (remote error at the credential step): a call of async_step_pat in
\* which findApp, refresh, updateApp or createApp raises returns the credential
\* form with app_setup_error, leaves the flow at the credential step, runs no
\* select_location and registers no app with the dispatcher; a following
\* submission of a valid credential whose remote calls succeed runs
\* select_location and registers the app.
C11_RemoteErrorStaysAtCredential ==
    [][\A f \in Flows :
          /\ PatFailed(f)' =>
                /\ result'[f] = ShowForm("pat", "app_setup_error", {})
                /\ cur_step'[f] = "pat"
                /\ ~RanStep(f, "select_location")'
                /\ Stepped(f) => registered' = registered
          /\ (PatFailed(f) /\ PatSucceeded(f)') =>
                /\ RanStep(f, "select_location")'
                /\ ListedLocations(f)'
                /\ session'[f].app_id \in registered'
                /\ cur_step'[f] \in {"select_location", "aborted"}]_vars

\* a credential was resubmitted after a remote error (the client of the failed
\* attempt is still stored) and this time the step went on to the locations
C11_Witness ==
    \E f \in Flows :
        /\ PatSucceeded(f)
        /\ preSession[f].api # Unset
        /\ RanStep(f, "select_location")
        /\ cur_step[f] = "select_location"

\* C14 (unreachable webhook): a call of async_step_user to which
\* validate_webhook_requirements answers no, with or without input, returns
\* abort invalid_webhook_url without running async_step_pat; the flow is over,
\* has no config entry, and nothing of it changes afterwards.
C14_InvalidWebhookAborts ==
    [][\A f \in Flows :
          /\ (validated[f] = "invalid")' =>
                /\ result'[f] = Abort("invalid_webhook_url")
                /\ cur_step'[f] = "aborted"
                /\ Len(trail'[f]) = 1 /\ trail'[f][1].step = "user"
                /\ ~HasEntry(f)'
          /\ validated[f] = "invalid" =>
                /\ UNCHANGED <<cur_step[f], session[f], result[f], trail[f], validated[f]>>
                /\ ~HasEntry(f)']_vars

\* the confirmation form was shown, and the call that submitted it found the
\* webhook unreachable and aborted
C14_Witness ==
    \E f \in Flows :
        /\ validated[f] = "invalid"
        /\ trail[f] = Ran("user", EmptyInput)
        /\ session[f].endpoints_initialized
        /\ ~awaiting[f].pending
        /\ cur_step[f] = "aborted"

\* C15 (endpoints registered once): a flow calls setup_smartapp_endpoint at
\* most once, however often async_step_user is called, a call made while the
\* first one is suspended in the registration included.
C15_EndpointRegisteredOnce == \A f \in Flows : endpointCalls[f] <= 1

\* a second call of async_step_user has returned while the first is still
\* suspended in setup_smartapp_endpoint
C15_Witness ==
    \E f \in Flows :
        /\ awaiting[f].pending
        /\ RanStep(f, "user")
        /\ endpointCalls[f] = 1

\* the last call was async_step_authorize, called by the flow manager
CalledAuthorize(f) == trail[f] # <<>> /\ trail[f][1].step = "authorize"

\* C16 (completion): a config entry is created only by a call of
\* async_step_authorize whose input carries both installed_app_id and
\* refresh_token; called with an input that lacks one of them it creates no
\* entry; called with no input it returns the external step with the URL built
\* from app_id and location_id and creates no entry.
C16_CompleteOnlyWithBothValues ==
    \A f \in Flows :
        /\ HasEntry(f) =>
              /\ CalledAuthorize(f)
              /\ cur_step[f] = "done"
        /\ (CalledAuthorize(f) /\ ~trail[f][1].input.given) =>
              /\ result[f] = ExternalStep("authorize",
                                          <<session[f].app_id, session[f].location_id>>)
              /\ ~HasEntry(f)
        /\ (CalledAuthorize(f) /\ trail[f][1].input.given
               /\ (trail[f][1].input.installed_app_id = NoValue
                     \/ trail[f][1].input.refresh_token = NoValue)) =>
              ~HasEntry(f)

\* the parts of C16 that do not concern an input lacking a value
C16_Rest ==
    \A f \in Flows :
        /\ HasEntry(f) => (CalledAuthorize(f) /\ cur_step[f] = "done")
        /\ (CalledAuthorize(f) /\ ~trail[f][1].input.given) =>
              /\ result[f] = ExternalStep("authorize",
                                          <<session[f].app_id, session[f].location_id>>)
              /\ ~HasEntry(f)

\* the values flow f was given
OwnTokens(f) == TokensOf(f) \cup {NoValue}

OwnLocations(f) == UNION {Range(l) : l \in ListsOf(f)} \cup {Unset}

OwnInstalled(f) == {x.installed_app_id : x \in PayloadsOf(f)} \cup {NoValue}

OwnRefresh(f) == {x.refresh_token : x \in PayloadsOf(f)} \cup {NoValue}

\* C17 (session isolation): with two flows stepping in any order, a step of
\* one flow leaves the other flow's session, position and result as they are;
\* every session holds only values its own flow was given; and an entry is
\* created from the session of the flow that creates it.
C17_SessionIsolation ==
    [][\A f \in Flows :
          /\ \A g \in Flows \ {f} : Stepped(f) => FlowState(g)' = FlowState(g)
          /\ session'[f].access_token \in OwnTokens(f)
          /\ session'[f].api \in OwnTokens(f) \cup {Unset}
          /\ session'[f].location_id \in OwnLocations(f)
          /\ session'[f].installed_app_id \in OwnInstalled(f)
          /\ session'[f].refresh_token \in OwnRefresh(f)
          /\ \A e \in entries' \ entries :
                e.flow = f => (Stepped(f) /\ e.data = EntryData(session'[f]))
          /\ \A e \in entries' :
                e.flow = f =>
                    /\ e.data.access_token \in TokensOf(f)
                    /\ e.data.location_id \in OwnLocations(f) \ {Unset}
                    /\ e.data.installed_app_id \in OwnInstalled(f) \ {NoValue}
                    /\ e.data.refresh_token \in OwnRefresh(f) \ {NoValue}]_vars

\* one flow created its entry while the other, started before that and given
\* another credential and another location, was waiting for its callback; then
\* the other created its own
C17_Witness ==
    \E f, g \in Flows :
        /\ f # g
        /\ HasEntry(f) /\ HasEntry(g)
        /\ session[f].access_token # session[g].access_token
        /\ session[f].location_id # session[g].location_id
        /\ session[f].oauth_client_id # session[g].oauth_client_id
        /\ \A e \in entries : e.data = EntryData(session[e.flow])

\* the last call was the flow manager calling `step`
Called(f, step) == trail[f] # <<>> /\ trail[f][1].step = step

\* C21 (re-entrancy): async_step_pat called with no input, or with an input
\* without a token, returns the credential form without an error, makes no
\* remote call, registers nothing and leaves every session field as it was;
\* async_step_authorize called with no input returns the external step again,
\* changes no session field and creates no entry; async_step_select_location
\* called without a location changes no session field but does call
\* listLocations again.
C21_ReentryRerendersPrompt ==
    [][\A f \in Flows :
          Stepped(f) =>
              /\ (Called(f, "pat")' /\ trail'[f][1].input.access_token = NoValue) =>
                    /\ result'[f] = ShowForm("pat", NoValue, {})
                    /\ calls'[f] = <<>>
                    /\ session'[f] = session[f]
                    /\ registered' = registered
                    /\ entries' = entries
              /\ (Called(f, "authorize")' /\ ~Truthy(trail'[f][1].input)) =>
                    /\ calls'[f] = <<>>
                    /\ session'[f] = session[f]
              /\ (\E i \in DOMAIN trail'[f] :
                     trail'[f][i].step = "authorize" /\ ~Truthy(trail'[f][i].input)) =>
                    /\ result'[f] = ExternalStep("authorize",
                                                 <<session'[f].app_id, session'[f].location_id>>)
                    /\ entries' = entries
              /\ (Called(f, "select_location")' /\ trail'[f][1].input.location_id = NoValue) =>
                    /\ calls'[f] = <<"listLocations">>
                    /\ session'[f] = session[f]
                    /\ entries' = entries]_vars

\* the flow waiting for its callback was called with an empty input and issued
\* the external step a second time
C21_Witness ==
    \E f \in Flows :
        /\ Called(f, "authorize")
        /\ trail[f][1].input = EmptyInput
        /\ result[f].type = "external"
        /\ session[f] = preSession[f]
        /\ session[f].location_id # Unset

CountOf(seq, x) == Cardinality({i \in DOMAIN seq : seq[i] = x})

\* C22 (app discovery): a successful call of async_step_pat either found the
\* app - it then called findApp, refresh and updateApp, no createApp, stored
\* the app's id and left the client credentials alone - or did not - it then
\* called findApp and createApp once each and stored the new client_id,
\* client_secret and app_id; either way the app is registered with the
\* dispatcher, next and before listLocations is called by select_location.
C22_AppDiscoveryBranches ==
    \A f \in Flows :
        PatSucceeded(f) =>
            /\ \/ /\ session[f].app_id = "app_found"
                  /\ calls[f] = <<"findApp", "refresh", "updateApp", "setup_smartapp",
                                  "listLocations">>
                  /\ session[f].oauth_client_id = preSession[f].oauth_client_id
                  /\ session[f].oauth_client_secret = preSession[f].oauth_client_secret
               \/ /\ session[f].app_id = "app_created"
                  /\ calls[f] = <<"findApp", "createApp", "setup_smartapp", "listLocations">>
                  /\ session[f].oauth_client_id = "client_id_1"
                  /\ session[f].oauth_client_secret = "client_secret_1"
            /\ CountOf(calls[f], "setup_smartapp") = 1
            /\ session[f].app_id \in registered
            /\ trail[f][2].step = "select_location"

\* no app was found, one was created and the flow is at the location form
C22_Witness ==
    \E f \in Flows :
        /\ PatSucceeded(f)
        /\ session[f].app_id = "app_created"
        /\ CountOf(calls[f], "createApp") = 1
        /\ registered = {"app_created"}
        /\ cur_step[f] = "select_location"

EntriesOf(f) == {e \in entries : e.flow = f}

\* the flow has created its entry or has aborted
Over(f) == HasEntry(f) \/ result[f].type = "abort"

C24_UserConfirmation ==
    \A f \in Flows :
        (Called(f, "user") /\ validated[f] = "valid") =>
            IF ~trail[f][1].input.given
            THEN /\ result[f] = ConfirmForm
                 /\ result[f].url = <<"webhook_url">>
                 /\ cur_step[f] = "user"
                 /\ Len(trail[f]) = 1
            ELSE /\ result[f] = ShowForm("pat", NoValue, {})
                 /\ cur_step[f] = "pat"
                 /\ trail[f] = Ran("user", trail[f][1].input) \o Ran("pat", NoInput)
                 /\ calls[f] = <<>>
                 /\ session[f] = [NewSession EXCEPT !.endpoints_initialized = TRUE]

\* the confirmation form was shown by an earlier call and this call
\* acknowledged it
C24_Witness ==
    \E f \in Flows :
        /\ Called(f, "user")
        /\ validated[f] = "valid"
        /\ trail[f][1].input.given
        /\ preSession[f].endpoints_initialized
        /\ cur_step[f] = "pat"

\* the tasks of pass p with the outcome of their calls left out
Decided(p) == [i \in DOMAIN tasks[p] |-> [tasks[p][i] EXCEPT !.status = "pending"]]

\* some create or delete call of pass p is made in this step
CallsRemote(p) ==
    \E i \in DOMAIN tasks[p] :
        /\ i \in DOMAIN tasks'[p]
        /\ tasks[p][i].status = "pending"
        /\ tasks'[p][i].status # "pending"

\* C26 (one listing, no local mutation): no step of a pass changes the device
\* snapshot or a device's capability list; a pass lists the subscriptions at
\* most once, and exactly once by the time it returns; every create and delete
\* call is made after that listing; the creations and deletions are those
\* computed from the listed snapshot and stay as decided while the calls run.
C26_SingleListingNoMutation ==
    [][ /\ devices' = devices
        /\ \A p \in Passes :
              /\ listCalls'[p] <= 1
              /\ CallsRemote(p) =>
                    /\ listCalls[p] = 1
                    /\ listCalls'[p] = 1
                    /\ subscriptions'[p] = subscriptions[p]
              /\ Listed(p)' =>
                    /\ listCalls'[p] = 1
                    /\ Decided(p)' = BuildTasks(subscriptions'[p], DesiredCapabilities(devices')).tasks
              /\ (Listed(p) /\ Listed(p)') =>
                    /\ Decided(p)' = Decided(p)
                    /\ subscriptions'[p] = subscriptions[p]
      ]_vars

\* a pass over a device with an ignored capability listed once, made a create
\* and a delete call, and returned
C26_Witness ==
    \E p \in Passes :
        /\ pc[p] = "done"
        /\ listCalls[p] = 1
        /\ \E k \in DOMAIN devices : \E c \in Range(devices[k]) : c \in IGNORED_CAPABILITIES
        /\ \E i, j \in DOMAIN tasks[p] :
              /\ tasks[p][i].kind = "create" /\ tasks[p][i].status = "ok"
              /\ tasks[p][j].kind = "delete" /\ tasks[p][j].status = "ok"

\* the first listed subscription of capability c in the listing L
FirstListed(L, c) ==
    L[CHOOSE i \in DOMAIN L :
          /\ L[i].capability = c
          /\ \A k \in 1..(i - 1) : L[k].capability # c]

\* capabilities of the listed subscriptions pass p deletes
DeletedCapsOf(p) == CapsOf({x \in Range(subscriptions[p]) : x.id \in DeletesOf(p)})

\* C27 (no create and delete of one capability): in a pass that has listed,
\* the capabilities it creates are disjoint from the capabilities of the
\* subscriptions it deletes; no two create tasks carry the same capability, no
\* two delete tasks the same subscription, every delete is of a listed
\* subscription; and the first listed subscription of every desired capability
\* is not deleted.
C27_CreateDeleteDisjoint ==
    \A p \in Passes :
        Listed(p) =>
            /\ CreatesOf(p) \cap DeletedCapsOf(p) = {}
            /\ \A i, j \in DOMAIN tasks[p] :
                  (i # j /\ tasks[p][i].kind = tasks[p][j].kind) =>
                      IF tasks[p][i].kind = "create"
                      THEN tasks[p][i].capability # tasks[p][j].capability
                      ELSE tasks[p][i].id # tasks[p][j].id
            /\ DeletesOf(p) \subseteq IdsOf(Range(subscriptions[p]))
            /\ \A c \in DesiredCapabilities(devices) \cap CapsOf(Range(subscriptions[p])) :
                  FirstListed(subscriptions[p], c).id \notin DeletesOf(p)

\* a pass listed two subscriptions of one desired capability, kept the first,
\* deleted the second, created a missing capability, and returned
C27_Witness ==
    \E p \in Passes :
        /\ pc[p] = "done"
        /\ CreatesOf(p) # {}
        /\ \E i, j \in DOMAIN subscriptions[p] :
              /\ i < j
              /\ subscriptions[p][i].capability = subscriptions[p][j].capability
              /\ subscriptions[p][i].capability \in DesiredCapabilities(devices)
              /\ subscriptions[p][i].id \notin DeletesOf(p)
              /\ subscriptions[p][j].id \in DeletesOf(p)

\* the listing call of pass p fails in this step
ListFails(p) == pc[p] = "list" /\ pc'[p] # "list" /\ faults' = faults + 1

\* C30 (failed listing): the step in which the listing of a pass fails ends
\* the pass with no create or delete task and leaves the remote set as it is;
\* a pass ended that way makes no call afterwards; the remote set changes only
\* in a create or delete call of a pass that has listed; and when the first
\* pass ended that way and the second has not started, the remote set is the
\* one the first pass started with.
C30_FailedListingNoCalls ==
    [][ /\ \A p \in Passes :
              /\ ListFails(p) =>
                    /\ pc'[p] = "raised"
                    /\ tasks'[p] = <<>>
                    /\ remote' = remote
              /\ pc[p] = "raised" =>
                    /\ pc'[p] = "raised"
                    /\ tasks'[p] = <<>>
                    /\ ~CallsRemote(p)
        /\ remote' # remote => \E q \in Passes : pc[q] = "gather" /\ CallsRemote(q)
        /\ (pc'["p1"] = "raised" /\ pc'["p2"] = "idle") => remote' = remote0'
      ]_vars

\* the listing of the first pass failed while creations and deletions were
\* due; the second pass then made them
C30_Witness ==
    /\ pc["p1"] = "raised"
    /\ listCalls["p1"] = 1
    /\ tasks["p1"] = <<>>
    /\ pc["p2"] = "done"
    /\ CreatesOf("p2") # {}
    /\ DeletesOf("p2") # {}
    /\ AllOk("p2")

\* the token is one of the two credential forms, nothing before or after
WellFormed(t) == FullMatch(TokenChars(t))

\* C28 (record token): the access_token of every created entry is 32 hex
\* characters or a hyphenated UUID, and is the token of the flow's last
\* credential submission, which was accepted with the app found or created; a
\* submission rejected for its format is what the session's access_token
\* holds, and the flow has no entry then.
C28_RecordTokenWellFormed ==
    \A f \in Flows :
        /\ \A e \in EntriesOf(f) :
              /\ WellFormed(e.data.access_token)
              /\ e.data.access_token = handshake[f].token
              /\ handshake[f].status = "accepted"
        /\ handshake[f].status = "rejected" =>
              /\ session[f].access_token = handshake[f].token
              /\ EntriesOf(f) = {}

\* what holds of the code: the same with the pattern match of line 99 in
\* place of the two forms
C28_Rest ==
    \A f \in Flows :
        /\ \A e \in EntriesOf(f) :
              /\ VAL_UID_MATCHER(TokenChars(e.data.access_token))
              /\ e.data.access_token = handshake[f].token
              /\ handshake[f].status = "accepted"
        /\ handshake[f].status \in {"rejected", "failed"} =>
              /\ session[f].access_token = handshake[f].token
              /\ EntriesOf(f) = {}
        /\ handshake[f].status = "rejected" =>
              ~VAL_UID_MATCHER(TokenChars(handshake[f].token))

HandshakeOrder == <<"validated", "acknowledged", "accepted", "listed", "selected", "created">>

\* C29 (handshake ordering): when a flow has created its entry, the latest
\* webhook validation that passed, the acknowledgment, the accepted
\* credential (app found or created and registered), the listing of a
\* non-empty set of locations, the choice of a location and the creation
\* happened in this order; the entry's app_id is the app that credential led
\* to and its location_id is the location chosen, one of those offered.
C29_HandshakeOrdering ==
    \A f \in Flows : \A e \in EntriesOf(f) :
        /\ handshake[f].events = HandshakeOrder
        /\ handshake[f].status = "accepted"
        /\ e.data.app_id = handshake[f].app
        /\ e.data.app_id \in registered
        /\ e.data.location_id = handshake[f].location
        /\ e.data.location_id \in handshake[f].offered

\* an entry was created for a newly created app and the second of two
\* offered locations
C29_Witness ==
    \E f \in Flows : \E e \in EntriesOf(f) :
        /\ e.data.app_id = "app_created"
        /\ e.data.location_id = "loc_2"
        /\ handshake[f].offered = {"loc_1", "loc_2"}
        /\ handshake[f].events = HandshakeOrder

====
